---- MODULE Spec2Model ----
(***************************************************************************)
(* Model of the OVP webcam filter program (src/main.cpp): the capture      *)
(* loop of main, the key handler updateToggles, the trackbar validators    *)
(* and the processing pipeline applyProcessing.                            *)
(***************************************************************************)
EXTENDS Integers, Sequences, FiniteSets, TLC

VARIABLES
    pc,          \* position of main (or of the component under study)
    toggles,     \* Algorithms toggles
    parameters,  \* ProcessingParameters parameters
    frame,       \* the cv::Mat most recently pulled / being processed
    cap,         \* cv::VideoCapture cap
    writer,      \* cv::VideoWriter writer
    windows,     \* the two imshow windows
    key,         \* last value returned by cv::waitKey
    pos,         \* last trackbar position handed to a callback
    rotateKeys,  \* number of 'A' keys received so far
    keyParity,   \* per toggle key: 1 iff received an odd number of times
    sliderEvents \* number of trackbar changes so far

vars == <<pc, toggles, parameters, frame, cap, writer, windows, key, pos,
          rotateKeys, keyParity, sliderEvents>>

----------------------------------------------------------------------------
(* Bounds of the model *)

\* frames the capture source delivers before the stream ends
MaxFrames == 4
\* trackbar changes in one run
MaxSliderEvents == 1
\* rotate keys counted in the key-handler specification
MaxRotateKeys == 5
\* raw values handed to the validators: -MaxNeg .. MaxPos
MaxNeg == 6
MaxPos == 262

----------------------------------------------------------------------------
(* Key codes of the switch in updateToggles *)

KeyNone == -1
KeyESC == 27
Key1 == 49
Key2 == 50
Key3 == 51
Key4 == 52
Key5 == 53
Key6 == 54
Key7 == 55
Key8 == 56
Key9 == 57
KeyA == 65
KeyB == 66
KeyC == 67
KeyD == 68
\* a key with no case of its own (lower-case 'a')
KeyOther == 97

Keys == {KeyNone, KeyESC, Key1, Key2, Key3, Key4, Key5, Key6, Key7, Key8,
         Key9, KeyA, KeyB, KeyC, KeyD, KeyOther}

\* the keys whose case negates one flag
ToggleKeys == {Key1, Key2, Key3, Key4, Key5, Key6, Key7, Key8, Key9,
               KeyB, KeyC, KeyD}

\* no key received yet
InitKeyParity == [k \in ToggleKeys |-> 0]

\* the parities after cv::waitKey returned k
Received(par, k) ==
    IF k \in ToggleKeys THEN [par EXCEPT ![k] = 1 - @] ELSE par

\* keys fed to the whole-program specification
LoopKeys == {KeyNone, KeyESC, Key1, Key7, KeyA, KeyD, KeyOther}

----------------------------------------------------------------------------
(* Algorithms and ProcessingParameters *)

BoolFlags == {"gaussian", "canny", "sobel", "brightness", "contrast",
              "negative", "grayscale", "halfSizeX", "halfSizeY",
              "mirrorX", "mirrorY", "record"}

InitToggles_secondFieldSet ==
    [capture |-> TRUE, gaussian |-> TRUE, canny |-> FALSE, sobel |-> FALSE,
     brightness |-> FALSE, contrast |-> FALSE, negative |-> FALSE,
     grayscale |-> FALSE, halfSizeX |-> FALSE, halfSizeY |-> FALSE,
     rotationsBy90 |-> 0, mirrorX |-> FALSE, mirrorY |-> FALSE,
     record |-> FALSE]

\* Algorithms toggles = {true, false};
InitToggles ==
    [capture |-> TRUE, gaussian |-> FALSE, canny |-> FALSE, sobel |-> FALSE,
     brightness |-> FALSE, contrast |-> FALSE, negative |-> FALSE,
     grayscale |-> FALSE, halfSizeX |-> FALSE, halfSizeY |-> FALSE,
     rotationsBy90 |-> 0, mirrorX |-> FALSE, mirrorY |-> FALSE,
     record |-> FALSE]

\* ProcessingParameters parameters = {3, 255, 255, 1};
InitParameters ==
    [gaussianSize |-> 3, cannyHighThreshold |-> 255, brightness |-> 255,
     contrast |-> 1]

\* trackbar maxima given to cv::createTrackbar
GaussianMax == 100
CannyMax == 255
BrightnessMax == 510
ContrastMax == 200

\* C++ remainder (truncating towards zero)
CRem(a, b) == IF a >= 0 THEN a % b ELSE -((-a) % b)

updateToggles_noEscIsolation(t, k) ==
    CASE k = KeyESC -> [t EXCEPT !.capture = FALSE, !.record = FALSE]
      [] k = Key1 -> [t EXCEPT !.gaussian = ~@]
      [] k = Key2 -> [t EXCEPT !.canny = ~@]
      [] k = Key3 -> [t EXCEPT !.sobel = ~@]
      [] k = Key4 -> [t EXCEPT !.brightness = ~@]
      [] k = Key5 -> [t EXCEPT !.contrast = ~@]
      [] k = Key6 -> [t EXCEPT !.negative = ~@]
      [] k = Key7 -> [t EXCEPT !.grayscale = ~@]
      [] k = Key8 -> [t EXCEPT !.halfSizeX = ~@]
      [] k = Key9 -> [t EXCEPT !.halfSizeY = ~@]
      [] k = KeyA -> [t EXCEPT !.rotationsBy90 = CRem(@ + 1, 4)]
      [] k = KeyB -> [t EXCEPT !.mirrorX = ~@]
      [] k = KeyC -> [t EXCEPT !.mirrorY = ~@]
      [] k = KeyD -> [t EXCEPT !.record = ~@]
      [] OTHER -> t

updateToggles_wrongFlag(t, k) ==
    CASE k = KeyESC -> [t EXCEPT !.capture = FALSE]
      [] k = Key1 -> [t EXCEPT !.gaussian = ~@]
      [] k = Key2 -> [t EXCEPT !.canny = ~@]
      [] k = Key3 -> [t EXCEPT !.sobel = ~@]
      [] k = Key4 -> [t EXCEPT !.brightness = ~@]
      [] k = Key5 -> [t EXCEPT !.contrast = ~@]
      [] k = Key6 -> [t EXCEPT !.negative = ~@]
      [] k = Key7 -> [t EXCEPT !.negative = ~@]
      [] k = Key8 -> [t EXCEPT !.halfSizeX = ~@]
      [] k = Key9 -> [t EXCEPT !.halfSizeY = ~@]
      [] k = KeyA -> [t EXCEPT !.rotationsBy90 = CRem(@ + 1, 4)]
      [] k = KeyB -> [t EXCEPT !.mirrorX = ~@]
      [] k = KeyC -> [t EXCEPT !.mirrorY = ~@]
      [] k = KeyD -> [t EXCEPT !.record = ~@]
      [] OTHER -> t

updateToggles_setsInsteadOfFlips(t, k) ==
    CASE k = KeyESC -> [t EXCEPT !.capture = FALSE]
      [] k = Key1 -> [t EXCEPT !.gaussian = TRUE]
      [] k = Key2 -> [t EXCEPT !.canny = ~@]
      [] k = Key3 -> [t EXCEPT !.sobel = ~@]
      [] k = Key4 -> [t EXCEPT !.brightness = ~@]
      [] k = Key5 -> [t EXCEPT !.contrast = ~@]
      [] k = Key6 -> [t EXCEPT !.negative = ~@]
      [] k = Key7 -> [t EXCEPT !.grayscale = ~@]
      [] k = Key8 -> [t EXCEPT !.halfSizeX = ~@]
      [] k = Key9 -> [t EXCEPT !.halfSizeY = ~@]
      [] k = KeyA -> [t EXCEPT !.rotationsBy90 = CRem(@ + 1, 4)]
      [] k = KeyB -> [t EXCEPT !.mirrorX = ~@]
      [] k = KeyC -> [t EXCEPT !.mirrorY = ~@]
      [] k = KeyD -> [t EXCEPT !.record = ~@]
      [] OTHER -> t

updateToggles_noWrap(t, k) ==
    CASE k = KeyESC -> [t EXCEPT !.capture = FALSE]
      [] k = Key1 -> [t EXCEPT !.gaussian = ~@]
      [] k = Key2 -> [t EXCEPT !.canny = ~@]
      [] k = Key3 -> [t EXCEPT !.sobel = ~@]
      [] k = Key4 -> [t EXCEPT !.brightness = ~@]
      [] k = Key5 -> [t EXCEPT !.contrast = ~@]
      [] k = Key6 -> [t EXCEPT !.negative = ~@]
      [] k = Key7 -> [t EXCEPT !.grayscale = ~@]
      [] k = Key8 -> [t EXCEPT !.halfSizeX = ~@]
      [] k = Key9 -> [t EXCEPT !.halfSizeY = ~@]
      [] k = KeyA -> [t EXCEPT !.rotationsBy90 = CRem(@ + 1, 3)]
      [] k = KeyB -> [t EXCEPT !.mirrorX = ~@]
      [] k = KeyC -> [t EXCEPT !.mirrorY = ~@]
      [] k = KeyD -> [t EXCEPT !.record = ~@]
      [] OTHER -> t

\* void updateToggles(Algorithms *toggles), k being the value of cv::waitKey(1)
updateToggles(t, k) ==
    CASE k = KeyESC -> [t EXCEPT !.capture = FALSE]
      [] k = Key1 -> [t EXCEPT !.gaussian = ~@]
      [] k = Key2 -> [t EXCEPT !.canny = ~@]
      [] k = Key3 -> [t EXCEPT !.sobel = ~@]
      [] k = Key4 -> [t EXCEPT !.brightness = ~@]
      [] k = Key5 -> [t EXCEPT !.contrast = ~@]
      [] k = Key6 -> [t EXCEPT !.negative = ~@]
      [] k = Key7 -> [t EXCEPT !.grayscale = ~@]
      [] k = Key8 -> [t EXCEPT !.halfSizeX = ~@]
      [] k = Key9 -> [t EXCEPT !.halfSizeY = ~@]
      [] k = KeyA -> [t EXCEPT !.rotationsBy90 = CRem(@ + 1, 4)]
      [] k = KeyB -> [t EXCEPT !.mirrorX = ~@]
      [] k = KeyC -> [t EXCEPT !.mirrorY = ~@]
      [] k = KeyD -> [t EXCEPT !.record = ~@]
      [] OTHER -> t

assertValidGaussianSize_noClamp(p, size) ==
    IF CRem(size, 2) = 0 THEN size + 1 ELSE size

\* void assertValidGaussianSize(int pos, void *size): the new value of *size
assertValidGaussianSize(p, size) ==
    LET s1 == IF CRem(size, 2) = 0 THEN size + 1 ELSE size
    IN  IF s1 < 3 THEN 3 ELSE s1

assertValidCannyHighThreshold_noUpper(p, threshold) ==
    IF threshold < 0 THEN 0 ELSE threshold

\* void assertValidCannyHighThreshold(int pos, void *threshold): new *threshold
assertValidCannyHighThreshold(p, threshold) ==
    IF threshold < 0 THEN 0
    ELSE IF threshold > 255 THEN 255
    ELSE threshold

----------------------------------------------------------------------------
(* cv::Mat: channel count, size, orientation of the picture (the labels of  *)
(* the corners clockwise from top-left) and the operations its pixels went  *)
(* through.                                                                 *)

\* a default-constructed or exhausted-stream cv::Mat
EmptyMat ==
    [empty |-> TRUE, channels |-> 1, width |-> 0, height |-> 0,
     corners |-> <<>>, ops |-> <<>>]

\* a frame as delivered by the capture source
CapturedFrame(ch, size) ==
    [empty |-> FALSE, channels |-> ch, width |-> size[1], height |-> size[2],
     corners |-> <<1, 2, 3, 4>>, ops |-> <<>>]

FrameChannels == {1, 3}
FrameSizes == {<<640, 480>>, <<5, 3>>}

Op(name, arg) == [stage |-> name, arg |-> arg]

\* cvRound(n * 0.5): round half to even, as cv::resize computes dsize
cvRoundHalf(n) ==
    LET q == n \div 2
    IN  IF n % 2 = 0 THEN q
        ELSE IF q % 2 = 0 THEN q ELSE q + 1

\* cv::GaussianBlur(*frame, *frame, Size(size, size), 0, BORDER_DEFAULT)
GaussianBlur(f, size) == [f EXCEPT !.ops = Append(@, Op("blur", size))]

\* cv::Canny(*frame, edges, th, th / 3, 3, true); *frame = edges
Canny(f, th) ==
    [f EXCEPT !.channels = 1, !.ops = Append(@, Op("canny", th))]

\* two cv::Sobel of *frame and addWeighted(sobelX, 0.5, sobelY, 0.5, 0, *frame)
Sobel(f) == [f EXCEPT !.ops = Append(@, Op("sobel", 3))]

\* frame->convertTo(*frame, depth, 1, brightness - 255)
Brightness(f, b) == [f EXCEPT !.ops = Append(@, Op("brightness", b - 255))]

\* frame->convertTo(*frame, depth, contrast / 100, 0)
Contrast(f, c) == [f EXCEPT !.ops = Append(@, Op("contrast", c))]

\* frame->convertTo(*frame, depth, -1, 255)
Negative(f) == [f EXCEPT !.ops = Append(@, Op("negative", 255))]

Grayscale_unconditional(f) ==
    [f EXCEPT !.channels = 1, !.ops = Append(@, Op("grayscale", 0))]

\* if (frame->channels() == 3) cv::cvtColor(*frame, gs, COLOR_BGR2GRAY)
Grayscale(f) ==
    IF f.channels = 3
    THEN [f EXCEPT !.channels = 1, !.ops = Append(@, Op("grayscale", 0))]
    ELSE f

\* cv::resize(*frame, halved, Size(0, 0), 0.5, 1, INTER_LINEAR)
HalfSizeX(f) ==
    [f EXCEPT !.width = cvRoundHalf(@), !.ops = Append(@, Op("halfSizeX", 0))]

\* cv::resize(*frame, halved, Size(0, 0), 1, 0.5, INTER_LINEAR)
HalfSizeY(f) ==
    [f EXCEPT !.height = cvRoundHalf(@), !.ops = Append(@, Op("halfSizeY", 0))]

\* cv::rotate(*frame, *frame, ROTATE_90_CLOCKWISE)
Rotate90(f) ==
    [f EXCEPT !.width = f.height, !.height = f.width,
              !.corners = <<@[4], @[1], @[2], @[3]>>,
              !.ops = Append(@, Op("rotate", 90))]

\* for (rots = 0; rots < toggles.rotationsBy90; rots++) cv::rotate(...)
RECURSIVE RotateLoop(_, _)
RotateLoop(f, n) == IF n <= 0 THEN f ELSE RotateLoop(Rotate90(f), n - 1)

\* flip(*frame, flipped, code): 0 around the x axis, 1 around the y axis,
\* -1 around both
Flip(f, code) ==
    [f EXCEPT !.corners = CASE code = 0 -> <<@[4], @[3], @[2], @[1]>>
                            [] code = 1 -> <<@[2], @[1], @[4], @[3]>>
                            [] OTHER -> <<@[3], @[4], @[1], @[2]>>,
              !.ops = Append(@, Op("flip", code))]

Mirror_missingElse(t, f) ==
    LET b == IF t.mirrorX /\ t.mirrorY THEN Flip(f, -1) ELSE f
        g == IF t.mirrorX THEN Flip(b, 0) ELSE b
    IN  IF t.mirrorY THEN Flip(g, 1) ELSE g

\* the mirroring block of applyProcessing
Mirror(t, f) ==
    IF t.mirrorX /\ t.mirrorY THEN Flip(f, -1)
    ELSE LET g == IF t.mirrorX THEN Flip(f, 0) ELSE f
         IN  IF t.mirrorY THEN Flip(g, 1) ELSE g

applyProcessing_sobelBeforeCanny(t, p, f0) ==
    LET f1 == IF t.gaussian THEN GaussianBlur(f0, p.gaussianSize) ELSE f0
        f2 == IF t.sobel THEN Sobel(f1) ELSE f1
        f3 == IF t.canny THEN Canny(f2, p.cannyHighThreshold) ELSE f2
        f4 == IF t.brightness THEN Brightness(f3, p.brightness) ELSE f3
        f5 == IF t.contrast THEN Contrast(f4, p.contrast) ELSE f4
        f6 == IF t.negative THEN Negative(f5) ELSE f5
        f7 == IF t.grayscale THEN Grayscale(f6) ELSE f6
        f8 == IF t.halfSizeX THEN HalfSizeX(f7) ELSE f7
        f9 == IF t.halfSizeY THEN HalfSizeY(f8) ELSE f8
        f10 == RotateLoop(f9, t.rotationsBy90)
    IN  Mirror(t, f10)

\* void applyProcessing(Algorithms toggles, ProcessingParameters parameters,
\*                      cv::Mat *frame): the new value of *frame
applyProcessing(t, p, f0) ==
    LET f1 == IF t.gaussian THEN GaussianBlur(f0, p.gaussianSize) ELSE f0
        f2 == IF t.canny THEN Canny(f1, p.cannyHighThreshold) ELSE f1
        f3 == IF t.sobel THEN Sobel(f2) ELSE f2
        f4 == IF t.brightness THEN Brightness(f3, p.brightness) ELSE f3
        f5 == IF t.contrast THEN Contrast(f4, p.contrast) ELSE f4
        f6 == IF t.negative THEN Negative(f5) ELSE f5
        f7 == IF t.grayscale THEN Grayscale(f6) ELSE f6
        f8 == IF t.halfSizeX THEN HalfSizeX(f7) ELSE f7
        f9 == IF t.halfSizeY THEN HalfSizeY(f8) ELSE f8
        f10 == RotateLoop(f9, t.rotationsBy90)
    IN  Mirror(t, f10)

----------------------------------------------------------------------------
(* The capture source, the recording sink and the display windows *)

\* what `cap >> frame` can deliver: a frame of the camera's size, or an
\* empty cv::Mat (always once the stream has ended)
NextFrames ==
    IF cap.opened /\ ~cap.released /\ cap.pulled < MaxFrames
    THEN {EmptyMat} \cup {CapturedFrame(ch, cap.size) : ch \in FrameChannels}
    ELSE {EmptyMat}

\* cv::cvtColor(frame, bgr, cv::COLOR_GRAY2BGR); frame = bgr
GrayToBgr(f) == [f EXCEPT !.channels = 3, !.ops = Append(@, Op("gray2bgr", 0))]

\* imshow(window, f) of a non-empty frame
Show(w, window, f) ==
    [w EXCEPT ![window] = [shows |-> @.shows + 1, image |-> f]]

\* pulled counts the reads; eof is set once a read delivered an empty frame
InitCap == [opened |-> FALSE, released |-> FALSE, pulled |-> 0, eof |-> FALSE,
            opens |-> 0, size |-> <<0, 0>>]

\* the capture source after `cap >> f`
Read(c, f) == [c EXCEPT !.pulled = @ + 1, !.eof = @ \/ f.empty]
InitWriter == [opened |-> FALSE, isColor |-> FALSE, released |-> FALSE,
               frames |-> <<>>]
InitWindows == [raw |-> [shows |-> 0, image |-> EmptyMat],
                processed |-> [shows |-> 0, image |-> EmptyMat]]

----------------------------------------------------------------------------
(* main *)

Init ==
    /\ pc = "open"
    /\ toggles = InitToggles
    /\ parameters = InitParameters
    /\ frame = EmptyMat
    /\ cap = InitCap
    /\ writer = InitWriter
    /\ windows = InitWindows
    /\ key = KeyNone
    /\ pos = 0
    /\ rotateKeys = 0
    /\ keyParity = InitKeyParity
    /\ sliderEvents = 0

\* cap.open(camera) succeeds
CapOpen(size) ==
    /\ pc = "open"
    /\ cap' = [cap EXCEPT !.opened = TRUE, !.opens = @ + 1, !.size = size]
    /\ pc' = "openVideoRecorder"
    /\ UNCHANGED <<toggles, parameters, frame, writer, windows, key, pos,
                   rotateKeys, keyParity, sliderEvents>>

CapOpenFails_carriesOn ==
    /\ pc = "open"
    /\ cap' = [cap EXCEPT !.opens = @ + 1]
    /\ pc' = "openVideoRecorder"
    /\ UNCHANGED <<toggles, parameters, frame, writer, windows, key, pos,
                   rotateKeys, keyParity, sliderEvents>>

\* if (!cap.open(camera)) return 0;
CapOpenFails ==
    /\ pc = "open"
    /\ cap' = [cap EXCEPT !.opens = @ + 1]
    /\ pc' = "done"
    /\ UNCHANGED <<toggles, parameters, frame, writer, windows, key, pos,
                   rotateKeys, keyParity, sliderEvents>>

\* openVideoRecorder(cap, writer)
OpenVideoRecorder(firstFrame) ==
    /\ pc = "openVideoRecorder"
    /\ firstFrame \in NextFrames
    /\ cap' = Read(cap, firstFrame)
    /\ frame' = firstFrame
    /\ writer' = [writer EXCEPT !.opened = TRUE,
                                !.isColor = (firstFrame.channels = 3)]
    /\ pc' = "spawnTrackbars"
    /\ UNCHANGED <<toggles, parameters, windows, key, pos, rotateKeys, keyParity,
                   sliderEvents>>

\* spawnTrackbars(cap, parameters): imshow of an empty frame throws
SpawnTrackbars(f) ==
    /\ pc = "spawnTrackbars"
    /\ f \in NextFrames
    /\ cap' = Read(cap, f)
    /\ frame' = f
    /\ IF f.empty
       THEN pc' = "aborted" /\ UNCHANGED windows
       ELSE pc' = "loop" /\ windows' = Show(windows, "processed", f)
    /\ UNCHANGED <<toggles, parameters, writer, key, pos, rotateKeys, keyParity,
                   sliderEvents>>

\* while (toggles.capture) { cv::Mat frame; ...
LoopTest_ignoresStop ==
    /\ pc = "loop"
    /\ pc' = "pull"
    /\ frame' = EmptyMat
    /\ UNCHANGED <<toggles, parameters, cap, writer, windows, key, pos,
                   rotateKeys, keyParity, sliderEvents>>

LoopTest ==
    /\ pc = "loop"
    /\ pc' = IF toggles.capture THEN "pull" ELSE "releaseCap"
    /\ frame' = EmptyMat
    /\ UNCHANGED <<toggles, parameters, cap, writer, windows, key, pos,
                   rotateKeys, keyParity, sliderEvents>>

PullFrame_returnsOnEmpty(f) ==
    /\ pc = "pull"
    /\ f \in NextFrames
    /\ cap' = Read(cap, f)
    /\ frame' = f
    /\ pc' = IF f.empty THEN "done" ELSE "showRaw"
    /\ UNCHANGED <<toggles, parameters, writer, windows, key, pos,
                   rotateKeys, keyParity, sliderEvents>>

\* cap >> frame; if (frame.empty()) break;
PullFrame(f) ==
    /\ pc = "pull"
    /\ f \in NextFrames
    /\ cap' = Read(cap, f)
    /\ frame' = f
    /\ pc' = IF f.empty THEN "releaseCap" ELSE "showRaw"
    /\ UNCHANGED <<toggles, parameters, writer, windows, key, pos,
                   rotateKeys, keyParity, sliderEvents>>

ShowRaw_skipsProcessing ==
    /\ pc = "showRaw"
    /\ windows' = Show(windows, "raw", frame)
    /\ pc' = "showProcessed"
    /\ UNCHANGED <<toggles, parameters, frame, cap, writer, key, pos,
                   rotateKeys, keyParity, sliderEvents>>

\* imshow("This is you, smile! :)", frame);
ShowRaw ==
    /\ pc = "showRaw"
    /\ windows' = Show(windows, "raw", frame)
    /\ pc' = "process"
    /\ UNCHANGED <<toggles, parameters, frame, cap, writer, key, pos,
                   rotateKeys, keyParity, sliderEvents>>

Process_clearsRotation ==
    /\ pc = "process"
    /\ frame' = applyProcessing(toggles, parameters, frame)
    /\ toggles' = [toggles EXCEPT !.rotationsBy90 = 0]
    /\ pc' = "showProcessed"
    /\ UNCHANGED <<parameters, cap, writer, windows, key, pos,
                   rotateKeys, keyParity, sliderEvents>>

\* applyProcessing(toggles, parameters, &frame);
Process ==
    /\ pc = "process"
    /\ frame' = applyProcessing(toggles, parameters, frame)
    /\ pc' = "showProcessed"
    /\ UNCHANGED <<toggles, parameters, cap, writer, windows, key, pos,
                   rotateKeys, keyParity, sliderEvents>>

\* imshow("You, but processed!", frame);
ShowProcessed ==
    /\ pc = "showProcessed"
    /\ windows' = Show(windows, "processed", frame)
    /\ pc' = "record"
    /\ UNCHANGED <<toggles, parameters, frame, cap, writer, key, pos,
                   rotateKeys, keyParity, sliderEvents>>

Record_noConversion ==
    /\ pc = "record"
    /\ IF toggles.record
       THEN /\ frame' = frame
            /\ writer' = [writer EXCEPT !.frames = Append(@, frame)]
       ELSE UNCHANGED <<frame, writer>>
    /\ pc' = "waitKey"
    /\ UNCHANGED <<toggles, parameters, cap, windows, key, pos, rotateKeys,
                   keyParity, sliderEvents>>

\* if (toggles.record) { ... writer.write(frame); }
Record ==
    /\ pc = "record"
    /\ IF toggles.record
       THEN LET out == IF frame.channels = 1 THEN GrayToBgr(frame) ELSE frame
            IN  /\ frame' = out
                /\ writer' = [writer EXCEPT !.frames = Append(@, out)]
       ELSE UNCHANGED <<frame, writer>>
    /\ pc' = "waitKey"
    /\ UNCHANGED <<toggles, parameters, cap, windows, key, pos, rotateKeys, keyParity,
                   sliderEvents>>

TrackbarWrite_noCallback(p, bar, position) ==
    CASE bar = "Gaussian Blur" -> [p EXCEPT !.gaussianSize = position]
      [] bar = "Canny High Threshold" ->
           [p EXCEPT !.cannyHighThreshold = position]
      [] bar = "Brightness (+255)" -> [p EXCEPT !.brightness = position]
      [] OTHER -> [p EXCEPT !.contrast = position]

\* the value a trackbar writes through its value pointer, then corrected by
\* the callback registered for that trackbar (none for the last two)
TrackbarWrite(p, bar, position) ==
    CASE bar = "Gaussian Blur" ->
           [p EXCEPT !.gaussianSize =
                assertValidGaussianSize(position, position)]
      [] bar = "Canny High Threshold" ->
           [p EXCEPT !.cannyHighThreshold =
                assertValidCannyHighThreshold(position, position)]
      [] bar = "Brightness (+255)" -> [p EXCEPT !.brightness = position]
      [] OTHER -> [p EXCEPT !.contrast = position]

Trackbars ==
    [name : {"Gaussian Blur"}, max : {GaussianMax}] \cup
    [name : {"Canny High Threshold"}, max : {CannyMax}] \cup
    [name : {"Brightness (+255)"}, max : {BrightnessMax}] \cup
    [name : {"Contrast (x100)"}, max : {ContrastMax}]

\* slider positions tried on a trackbar of the given maximum
TrackbarPositions(max) == {0, 2, max}

\* a trackbar of the processed window is moved while cv::waitKey runs the
\* GUI event loop
TrackbarChange(bar, position) ==
    /\ pc = "waitKey"
    /\ sliderEvents < MaxSliderEvents
    /\ position \in TrackbarPositions(bar.max)
    /\ pos' = position
    /\ parameters' = TrackbarWrite(parameters, bar.name, position)
    /\ sliderEvents' = sliderEvents + 1
    /\ UNCHANGED <<pc, toggles, frame, cap, writer, windows, key, rotateKeys, keyParity>>

\* updateToggles(&toggles); with cv::waitKey(1) returning k
WaitKey(k) ==
    /\ pc = "waitKey"
    /\ key' = k
    /\ toggles' = updateToggles(toggles, k)
    /\ rotateKeys' = IF k = KeyA THEN rotateKeys + 1 ELSE rotateKeys
    /\ keyParity' = Received(keyParity, k)
    /\ pc' = "loop"
    /\ UNCHANGED <<parameters, frame, cap, writer, windows, pos, sliderEvents>>

\* cap.release();
ReleaseCap ==
    /\ pc = "releaseCap"
    /\ cap' = [cap EXCEPT !.released = TRUE]
    /\ pc' = "releaseWriter"
    /\ UNCHANGED <<toggles, parameters, frame, writer, windows, key, pos,
                   rotateKeys, keyParity, sliderEvents>>

\* writer.release(); return 0;
ReleaseWriter ==
    /\ pc = "releaseWriter"
    /\ writer' = [writer EXCEPT !.released = TRUE]
    /\ pc' = "done"
    /\ UNCHANGED <<toggles, parameters, frame, cap, windows, key, pos,
                   rotateKeys, keyParity, sliderEvents>>

Next ==
    \/ \E size \in FrameSizes : CapOpen(size)
    \/ CapOpenFails
    \/ \E f \in NextFrames : OpenVideoRecorder(f)
    \/ \E f \in NextFrames : SpawnTrackbars(f)
    \/ LoopTest
    \/ \E f \in NextFrames : PullFrame(f)
    \/ ShowRaw
    \/ Process
    \/ ShowProcessed
    \/ Record
    \/ \E bar \in Trackbars : \E position \in TrackbarPositions(bar.max) :
          TrackbarChange(bar, position)
    \/ \E k \in LoopKeys : WaitKey(k)
    \/ ReleaseCap
    \/ ReleaseWriter

Spec == Init /\ [][Next]_vars

\* main is one thread that runs to its end: a step that can be taken is taken
FairSpec == Spec /\ WF_vars(Next)

----------------------------------------------------------------------------
(* The key handler on its own: updateToggles called once per iteration from *)
(* the initial toggles, for as long as the loop condition holds.            *)

InitToggleLoop ==
    /\ pc = "updateToggles"
    /\ toggles = InitToggles
    /\ parameters = InitParameters
    /\ frame = EmptyMat
    /\ cap = InitCap
    /\ writer = InitWriter
    /\ windows = InitWindows
    /\ key = KeyNone
    /\ pos = 0
    /\ rotateKeys = 0
    /\ keyParity = InitKeyParity
    /\ sliderEvents = 0

\* while (toggles.capture) { ... updateToggles(&toggles); }
UpdateTogglesCall(k) ==
    /\ pc = "updateToggles"
    /\ toggles.capture
    /\ k = KeyA => rotateKeys < MaxRotateKeys
    /\ key' = k
    /\ toggles' = updateToggles(toggles, k)
    /\ rotateKeys' = IF k = KeyA THEN rotateKeys + 1 ELSE rotateKeys
    /\ keyParity' = Received(keyParity, k)
    /\ UNCHANGED <<pc, parameters, frame, cap, writer, windows, pos,
                   sliderEvents>>

NextToggleLoop == \E k \in Keys : UpdateTogglesCall(k)

SpecToggles == InitToggleLoop /\ [][NextToggleLoop]_vars

----------------------------------------------------------------------------
(* The pipeline on its own: one call of applyProcessing on a captured frame *)
(* that has just been shown raw, under any toggles the keys can produce.    *)

AllToggles ==
    {[capture |-> TRUE, gaussian |-> b["gaussian"], canny |-> b["canny"],
      sobel |-> b["sobel"], brightness |-> b["brightness"],
      contrast |-> b["contrast"], negative |-> b["negative"],
      grayscale |-> b["grayscale"], halfSizeX |-> b["halfSizeX"],
      halfSizeY |-> b["halfSizeY"], rotationsBy90 |-> r,
      mirrorX |-> b["mirrorX"], mirrorY |-> b["mirrorY"],
      record |-> b["record"]] :
        b \in [BoolFlags -> BOOLEAN], r \in 0 .. 3}

\* parameter values the trackbars can leave behind
SomeParameters ==
    {InitParameters,
     [gaussianSize |-> 101, cannyHighThreshold |-> 0, brightness |-> 0,
      contrast |-> 200]}

InitProcess ==
    /\ pc = "process"
    /\ toggles \in AllToggles
    /\ parameters \in SomeParameters
    /\ \E ch \in FrameChannels, size \in FrameSizes :
          /\ frame = CapturedFrame(ch, size)
          /\ windows = Show(InitWindows, "raw", frame)
          /\ cap = [InitCap EXCEPT !.opened = TRUE, !.opens = 1,
                                   !.size = size]
    /\ writer = [InitWriter EXCEPT !.opened = TRUE]
    /\ key = KeyNone
    /\ pos = 0
    /\ rotateKeys = 0
    /\ keyParity = InitKeyParity
    /\ sliderEvents = 0

SpecProcess == InitProcess /\ [][Process]_vars

----------------------------------------------------------------------------
(* The trackbar callbacks on their own: a raw value has been written        *)
(* through the value pointer and the callback is about to run.              *)

RawValues == (0 - MaxNeg) .. MaxPos

InitValidators ==
    /\ pos \in RawValues
    /\ \/ /\ pc = "gaussianWritten"
          /\ parameters = [InitParameters EXCEPT !.gaussianSize = pos]
       \/ /\ pc = "cannyWritten"
          /\ parameters = [InitParameters EXCEPT !.cannyHighThreshold = pos]
    /\ toggles = InitToggles
    /\ frame = EmptyMat
    /\ cap = InitCap
    /\ writer = InitWriter
    /\ windows = InitWindows
    /\ key = KeyNone
    /\ rotateKeys = 0
    /\ keyParity = InitKeyParity
    /\ sliderEvents = 0

\* assertValidGaussianSize(pos, &parameters.gaussianSize)
GaussianCallback ==
    /\ pc = "gaussianWritten"
    /\ parameters' = [parameters EXCEPT !.gaussianSize =
                          assertValidGaussianSize(pos, @)]
    /\ pc' = "gaussianValidated"
    /\ UNCHANGED <<toggles, frame, cap, writer, windows, key, pos,
                   rotateKeys, keyParity, sliderEvents>>

\* assertValidCannyHighThreshold(pos, &parameters.cannyHighThreshold)
CannyCallback ==
    /\ pc = "cannyWritten"
    /\ parameters' = [parameters EXCEPT !.cannyHighThreshold =
                          assertValidCannyHighThreshold(pos, @)]
    /\ pc' = "cannyValidated"
    /\ UNCHANGED <<toggles, frame, cap, writer, windows, key, pos,
                   rotateKeys, keyParity, sliderEvents>>

NextValidators == GaussianCallback \/ CannyCallback

SpecValidators == InitValidators /\ [][NextValidators]_vars

----------------------------------------------------------------------------
(* Properties *)

\* n copies of x
Copies(n, x) == [i \in 1 .. n |-> x]

\* the operations a frame of ch channels goes through, stage by stage in the
\* documented order, under toggles t and parameters p
ExpectedOps(t, p, ch) ==
    LET chAtGrayscale == IF t.canny THEN 1 ELSE ch
    IN  (IF t.gaussian THEN <<Op("blur", p.gaussianSize)>> ELSE <<>>)
     \o (IF t.canny THEN <<Op("canny", p.cannyHighThreshold)>> ELSE <<>>)
     \o (IF t.sobel THEN <<Op("sobel", 3)>> ELSE <<>>)
     \o (IF t.brightness THEN <<Op("brightness", p.brightness - 255)>>
         ELSE <<>>)
     \o (IF t.contrast THEN <<Op("contrast", p.contrast)>> ELSE <<>>)
     \o (IF t.negative THEN <<Op("negative", 255)>> ELSE <<>>)
     \o (IF t.grayscale /\ chAtGrayscale = 3 THEN <<Op("grayscale", 0)>>
         ELSE <<>>)
     \o (IF t.halfSizeX THEN <<Op("halfSizeX", 0)>> ELSE <<>>)
     \o (IF t.halfSizeY THEN <<Op("halfSizeY", 0)>> ELSE <<>>)
     \o Copies(t.rotationsBy90, Op("rotate", 90))
     \o (IF t.mirrorX /\ t.mirrorY THEN <<Op("flip", -1)>>
         ELSE (IF t.mirrorX THEN <<Op("flip", 0)>> ELSE <<>>)
           \o (IF t.mirrorY THEN <<Op("flip", 1)>> ELSE <<>>))

\* C1: for any toggle combination the processed frame went through exactly
\* the stages whose toggle is set, in the order blur, Canny, Sobel,
\* brightness, contrast, negative, grayscale (a conversion only on a
\* 3-channel frame), half-width, half-height, rotationsBy90 rotations,
\* mirroring, each stage working on the output of the one before it.
C1_FixedStageOrder ==
    pc = "showProcessed" =>
        /\ frame.ops = ExpectedOps(toggles, parameters,
                                   windows.raw.image.channels)
        /\ toggles.grayscale => frame.channels = 1

C1_Witness ==
    /\ pc = "showProcessed"
    /\ \A g \in BoolFlags : toggles[g]
    /\ toggles.rotationsBy90 = 3
    /\ windows.raw.image.channels = 3
    /\ Len(frame.ops) = 12

\* the flag each toggle key stands for
KeyFlag ==
    (Key1 :> "gaussian") @@ (Key2 :> "canny") @@ (Key3 :> "sobel") @@
    (Key4 :> "brightness") @@ (Key5 :> "contrast") @@ (Key6 :> "negative") @@
    (Key7 :> "grayscale") @@ (Key8 :> "halfSizeX") @@ (Key9 :> "halfSizeY") @@
    (KeyB :> "mirrorX") @@ (KeyC :> "mirrorY") @@ (KeyD :> "record")

C3_EscOnlyStopsCapture ==
    [][key' = KeyESC =>
          /\ toggles.capture
          /\ ~toggles'.capture
          /\ toggles' = [toggles EXCEPT !.capture = FALSE]]_vars

C3_Witness ==
    /\ pc = "updateToggles"
    /\ key = KeyESC
    /\ ~toggles.capture
    /\ toggles.record
    /\ toggles.mirrorX
    /\ toggles.rotationsBy90 = 2

LoopBody == {"pull", "showRaw", "process", "showProcessed", "record",
             "waitKey"}

\* C4: capture becomes false only in the key step that received ESC and is
\* never set again; once it is false the loop test leaves the loop and no
\* frame is pulled, shown, processed or written any more.
C4_StopOnlyByEscAndFinal ==
    [][/\ (toggles.capture /\ ~toggles'.capture) =>
              (pc = "waitKey" /\ key' = KeyESC)
       /\ ~toggles.capture =>
              /\ ~toggles'.capture
              /\ pc \notin LoopBody /\ pc' \notin LoopBody
              /\ cap'.pulled = cap.pulled
              /\ windows' = windows
              /\ writer'.frames = writer.frames
              /\ frame' \in {frame, EmptyMat}
              /\ pc = "loop" => pc' = "releaseCap"]_vars

C4_Witness ==
    /\ pc = "done"
    /\ ~toggles.capture
    /\ key = KeyESC
    /\ windows.raw.shows = 1

\* C5 as amended: the blur-size validator yields 3 for every v < 3, v + 1 for
\* every even v >= 2 and v itself for every odd v >= 3.
C5_GaussianSizeValidated ==
    pc = "gaussianValidated" =>
        /\ pos < 3 => parameters.gaussianSize = 3
        /\ (pos >= 2 /\ CRem(pos, 2) = 0) => parameters.gaussianSize = pos + 1
        /\ (pos >= 3 /\ CRem(pos, 2) # 0) => parameters.gaussianSize = pos

C5_Witness ==
    /\ pc = "gaussianValidated"
    /\ pos = 4
    /\ parameters.gaussianSize = 5

\* C5 as stated: v + 1 for every even v, 3 for every v < 3, v for every odd
\* v >= 3.
C5_AsStated ==
    pc = "gaussianValidated" =>
        /\ CRem(pos, 2) = 0 => parameters.gaussianSize = pos + 1
        /\ pos < 3 => parameters.gaussianSize = 3
        /\ (pos >= 3 /\ CRem(pos, 2) # 0) => parameters.gaussianSize = pos

\* C6: the edge-threshold validator yields 0 for v < 0, 255 for v > 255 and
\* v otherwise.
C6_CannyThresholdClamped ==
    pc = "cannyValidated" =>
        parameters.cannyHighThreshold =
            (IF pos < 0 THEN 0 ELSE IF pos > 255 THEN 255 ELSE pos)

C6_Witness ==
    /\ pc = "cannyValidated"
    /\ pos = 260
    /\ parameters.cannyHighThreshold = 255

\* C7: whenever a frame is about to be processed, the blur size is odd and
\* at least 3, the edge threshold is in 0..255, brightness in 0..510 and
\* contrast in 0..200.
C7_ParametersInRange ==
    pc = "process" =>
        /\ parameters.gaussianSize >= 3
        /\ parameters.gaussianSize % 2 = 1
        /\ parameters.cannyHighThreshold \in 0 .. 255
        /\ parameters.brightness \in 0 .. 510
        /\ parameters.contrast \in 0 .. 200

C7_Witness ==
    /\ pc = "process"
    /\ sliderEvents = 1
    /\ pos = 100
    /\ parameters.gaussianSize = 101

\* C8: the rotate key takes rotationsBy90 from n to (n + 1) mod 4, no other
\* key changes it, and so it always equals the number of rotate keys
\* received modulo 4: four rotate keys, whatever keys come in between, bring
\* it back to where it was.
C8_RotateKeyCyclesMod4 ==
    [][/\ key' = KeyA =>
            toggles'.rotationsBy90 = (toggles.rotationsBy90 + 1) % 4
       /\ key' # KeyA => toggles'.rotationsBy90 = toggles.rotationsBy90
       /\ toggles'.rotationsBy90 = rotateKeys' % 4]_vars

C8_Witness ==
    /\ pc = "updateToggles"
    /\ rotateKeys = 4
    /\ toggles.rotationsBy90 = 0
    /\ toggles.gaussian
    /\ key = KeyA

\* C9: once a pulled frame was empty the program is on its way out through
\* the release of the capture source and the sink, and no empty frame was
\* handed to a window, the pipeline or the sink.
C9_EmptyFrameEndsRun ==
    cap.eof =>
        /\ pc \in {"releaseCap", "releaseWriter", "done"}
        /\ ~windows.raw.image.empty \/ windows.raw.shows = 0
        /\ ~windows.processed.image.empty \/ windows.processed.shows = 0

\* C10: after a failed cap.open the process is done: open was called once,
\* no frame was pulled, the sink was not opened, nothing was shown and no
\* frame was processed.
C10_OpenFailureExits ==
    (cap.opens > 0 /\ ~cap.opened) =>
        /\ pc = "done"
        /\ cap.opens = 1
        /\ cap.pulled = 0
        /\ ~writer.opened
        /\ writer.frames = <<>>
        /\ windows = InitWindows
        /\ frame = EmptyMat

C10_Witness ==
    /\ pc = "done"
    /\ cap.opens = 1
    /\ ~cap.opened
    /\ cap.pulled = 0

\* C11: once the loop is left, by ESC or by an empty frame, the capture
\* source and then the sink are released and main returns; neither is
\* released while main is still before or inside the loop.
C11_ReleasedAfterLoopExit ==
    /\ [](cap.released => pc \in {"releaseWriter", "done"})
    /\ [](writer.released => pc = "done")
    /\ [](pc = "releaseWriter" => cap.released)
    /\ []((pc = "done" /\ cap.opened) => (cap.released /\ writer.released))
    /\ pc = "releaseCap" ~> (pc = "done" /\ cap.released /\ writer.released)

C11_Witness ==
    /\ pc = "done"
    /\ cap.released
    /\ writer.released
    /\ cap.eof
    /\ windows.raw.shows = 1

\* C12: the record step of an iteration hands the processed frame to
\* writer.write exactly once if toggles.record is set at that step and not at
\* all otherwise, no other step writes, a 1-channel processed frame is
\* converted to 3 channels first, and every written frame has 3 channels.
C12_WrittenOnceIffRecording ==
    [][/\ pc = "record" =>
            IF toggles.record
            THEN /\ Len(writer'.frames) = Len(writer.frames) + 1
                 /\ SubSeq(writer'.frames, 1, Len(writer.frames))
                        = writer.frames
                 /\ LET processed == windows.processed.image
                        written == writer'.frames[Len(writer'.frames)]
                    IN  /\ written.channels = 3
                        /\ written.width = processed.width
                        /\ written.height = processed.height
                        /\ written.corners = processed.corners
                        /\ written.ops =
                              IF processed.channels = 1
                              THEN Append(processed.ops, Op("gray2bgr", 0))
                              ELSE processed.ops
            ELSE writer'.frames = writer.frames
       /\ pc # "record" => writer'.frames = writer.frames
       /\ \A i \in DOMAIN writer'.frames : writer'.frames[i].channels = 3]_vars

C12_Witness ==
    /\ pc = "waitKey"
    /\ toggles.record
    /\ Len(writer.frames) = 1
    /\ windows.processed.image.channels = 1
    /\ writer.frames[1].channels = 3
    /\ writer.frames[1].ops = <<Op("gray2bgr", 0)>>

\* the flip operations among the operations of a frame
FlipOps(f) == SelectSeq(f.ops, LAMBDA o : o.stage = "flip")

\* the picture of a frame: everything but the record of its operations
Picture(f) == <<f.channels, f.width, f.height, f.corners>>

\* the frame as it enters the mirroring stage
BeforeMirror ==
    applyProcessing([toggles EXCEPT !.mirrorX = FALSE, !.mirrorY = FALSE],
                    parameters, windows.raw.image)

C14_GrayscaleOnly ==
    (/\ pc = "showProcessed"
     /\ toggles.grayscale
     /\ \A g \in BoolFlags \ {"grayscale", "record"} : ~toggles[g]
     /\ toggles.rotationsBy90 = 0) =>
        LET in == windows.raw.image
        IN  /\ in.channels = 3 =>
                /\ frame.channels = 1
                /\ frame.width = in.width
                /\ frame.height = in.height
                /\ frame.corners = in.corners
            /\ in.channels = 1 => frame = in

C14_Witness ==
    /\ pc = "showProcessed"
    /\ toggles = [InitToggles EXCEPT !.grayscale = TRUE]
    /\ windows.raw.image.channels = 3
    /\ frame.channels = 1
    /\ frame.width = 640
    /\ frame.height = 480

\* C15: every frame handed to the sink has the colour mode the sink was
\* opened with before the loop: 3 channels if it was opened for colour,
\* 1 channel if not.
C15_WritesMatchColorMode ==
    \A i \in DOMAIN writer.frames :
        /\ writer.opened
        /\ writer.isColor <=> writer.frames[i].channels = 3

\* C16 as amended: the first two reads happen outside the loop: the first
\* frame only sets the colour mode of the sink, the second is only shown,
\* unprocessed, in the processed window (if it is not empty). Every later
\* non-empty frame is shown raw, then processed by the whole pipeline under
\* the current toggles and parameters, then shown processed, then reaches the
\* record step, in this order; the processed window changes only there and
\* in spawnTrackbars, the raw window only in the raw display step.
C16_TwoStartupFramesThenFullIterations ==
    [][/\ cap'.pulled # cap.pulled =>
            \/ /\ pc = "openVideoRecorder"
               /\ cap.pulled = 0
               /\ windows' = windows
               /\ writer'.frames = writer.frames
            \/ /\ pc = "spawnTrackbars"
               /\ cap.pulled = 1
               /\ writer' = writer
               /\ windows'.raw = windows.raw
               /\ windows' # windows =>
                     /\ ~frame'.empty
                     /\ frame'.ops = <<>>
                     /\ windows'.processed.image = frame'
            \/ /\ pc = "pull"
               /\ cap.pulled >= 2
       /\ (pc = "pull" /\ ~frame'.empty) => pc' = "showRaw"
       /\ pc = "showRaw" =>
            /\ pc' = "process"
            /\ frame' = frame
            /\ windows'.raw.image = frame
       /\ pc = "process" =>
            /\ pc' = "showProcessed"
            /\ frame' = applyProcessing(toggles, parameters,
                                        windows.raw.image)
       /\ pc = "showProcessed" =>
            /\ pc' = "record"
            /\ windows'.processed.image = frame
       /\ pc = "record" => pc' = "waitKey"
       /\ windows'.processed # windows.processed =>
            pc \in {"spawnTrackbars", "showProcessed"}
       /\ windows'.raw # windows.raw => pc = "showRaw"]_vars

C16_Witness ==
    /\ pc = "record"
    /\ cap.pulled = 4
    /\ windows.raw.shows = 2
    /\ windows.processed.shows = 3
    /\ toggles.grayscale
    /\ windows.raw.image.channels = 3
    /\ windows.processed.image = frame
    /\ frame.ops = <<Op("grayscale", 0)>>

\* C16 as stated: only one frame is read before the first iteration, and a
\* frame is shown in the processed window only after it was shown raw and
\* processed in an iteration.
C16_AsStated ==
    /\ (pc = "loop" /\ windows.raw.shows = 0) => cap.pulled = 1
    /\ windows.processed.shows <= windows.raw.shows

\* C17: toggles and parameters change only while main is in the input step
\* (cv::waitKey inside updateToggles); pulling, showing, processing and
\* recording leave both as they are, so the frame shown processed and handed
\* to the record step is the pulled frame processed under the toggles the
\* record step reads, and the input step leaves the frame, the windows and
\* the sink of its iteration alone: a key acts on the next frame.
C17_TogglesChangeOnlyInInputStep ==
    [][/\ (toggles' # toggles \/ parameters' # parameters) => pc = "waitKey"
       /\ pc' \in {"showProcessed", "record"} =>
            frame' = applyProcessing(toggles', parameters',
                                     windows'.raw.image)
       /\ pc = "waitKey" =>
            /\ frame' = frame
            /\ windows' = windows
            /\ writer' = writer]_vars

C17_Witness ==
    /\ pc = "record"
    /\ key = Key7
    /\ toggles.grayscale
    /\ windows.raw.shows = 2
    /\ windows.raw.image.channels = 3
    /\ frame.channels = 1

\* C18: in the first iteration toggles still has capture set, every other
\* flag clear and rotationsBy90 = 0, the frame comes out of the pipeline
\* with no operation applied and nothing has been written to the sink.
C18_FirstIterationUsesInitialToggles ==
    ((pc \in {"pull", "showRaw"} /\ windows.raw.shows = 0)
        \/ (pc \in {"process", "showProcessed", "record", "waitKey"}
               /\ windows.raw.shows = 1)) =>
        /\ toggles.capture
        /\ \A g \in BoolFlags : ~toggles[g]
        /\ toggles.rotationsBy90 = 0
        /\ writer.frames = <<>>
        /\ pc \in {"showProcessed", "record", "waitKey"} =>
              /\ frame = windows.raw.image
              /\ frame.ops = <<>>
              /\ windows.processed.image.ops = <<>>

C18_Witness ==
    /\ pc = "waitKey"
    /\ windows.raw.shows = 1
    /\ windows.processed.shows = 2
    /\ windows.processed.image = windows.raw.image
    /\ writer.frames = <<>>
    /\ ~toggles.record

\* C19: as long as no ESC was received, each flag is set exactly if its key
\* was received an odd number of times, so the same toggle key twice, with
\* other keys in between, leaves its flag as it was; and once every toggle
\* key was received an even number of times and A a multiple of 4 times,
\* toggles is back at the value it started with.
C19_EvenKeyCountsRestoreToggles ==
    toggles.capture =>
        /\ \A k \in ToggleKeys : toggles[KeyFlag[k]] <=> keyParity[k] = 1
        /\ ((\A k \in ToggleKeys : keyParity[k] = 0) /\ rotateKeys % 4 = 0) =>
              /\ \A g \in BoolFlags : ~toggles[g]
              /\ toggles.rotationsBy90 = 0

C19_Witness ==
    /\ pc = "updateToggles"
    /\ toggles.capture
    /\ rotateKeys = 4
    /\ key = KeyD
    /\ \A k \in ToggleKeys : keyParity[k] = 0
    /\ \A g \in BoolFlags : ~toggles[g]
    /\ toggles.rotationsBy90 = 0

====
